---- MODULE Spec2Model ----
(***************************************************************************)
(* Ticket lifecycle of the support-ticket bot (src/index.js).              *)
(*                                                                         *)
(* The state is the SQLite store (config, tickets, ticket_members), the    *)
(* guild's channels with their per-user permission overwrites, and the     *)
(* interactions in flight.  A handler is split at its awaits on gateway    *)
(* and export calls: one action runs the synchronous code from the         *)
(* interaction's arrival up to the first such await, and one action runs   *)
(* the outcome of each awaited call together with the synchronous code     *)
(* that follows it.  Interaction responses (deferReply, reply, editReply)  *)
(* change no modelled state and are folded into the step before them.      *)
(* Every gateway or export call may fail.                                  *)
(***************************************************************************)
EXTENDS Naturals, Sequences, FiniteSets

\* ---------------------------------------------------------------- bounds
\* Channel ids the gateway hands out (ids are never reused).
MaxChannels == 2
\* Clock values (seconds) strftime('%s','now') may return: 1..MaxTime.
MaxTime == 2

\* ------------------------------------------------------- the guild's users
UserOrder == <<"u1", "u2", "u3">>
Users == {UserOrder[i] : i \in 1..Len(UserOrder)}

\* user.username
username == [u \in Users |->
               CASE u = "u1" -> "Ann" [] u = "u2" -> "Bob" [] OTHER -> "Cy"]

\* String.prototype.toLowerCase on the usernames above
toLowerCase(n) ==
  CASE n = "Ann" -> "ann" [] n = "Bob" -> "bob" [] n = "Cy" -> "cy" [] OTHER -> n

Roles == {"support"}
\* member.roles.cache
roles == [u \in Users |-> IF u = "u2" THEN {"support"} ELSE {}]
\* member.permissions.has(Administrator)
isAdmin(u) == u = "u3"

\* The users who press a panel button.
Creators == {"u1"}
PanelNames == {"help"}
NoRole == "none"
None == "none"
ClosedCat == "closedCat"
LogChan == "logChan"

\* The channel the panel button and stray commands live in; never a ticket.
Lobby == 0
ChanIds == 0..MaxChannels

\* ------------------------------------------------------------------ state
VARIABLES
  config,    \* the guild's row of table config
  tickets,   \* table tickets, by channelId
  members,   \* table ticket_members: set of <<channelId, userId>>
  channels,  \* guild.channels.cache, by channel id
  nextId,    \* next channel id the gateway will hand out
  reqs,      \* the interactions in flight, by handler slot
  width      \* how many interactions may overlap

vars == <<config, tickets, members, channels, nextId, reqs, width>>

Slots == {1, 2}

NoConfig == [row |-> FALSE, supportRole |-> NoRole, closedCategory |-> None,
             logChannel |-> None]
NoTicket == [row |-> FALSE, ownerId |-> None, panelName |-> None,
             status |-> None, closedAt |-> 0]
NoChan == [live |-> FALSE, name |-> None, parent |-> None, ow |-> {},
           roleAllow |-> NoRole]

Idle == [op |-> "idle", caller |-> None, ch |-> 0, target |-> None,
         pc |-> "idle", res |-> None, cfg |-> NoConfig, staff |-> FALSE,
         owner |-> None, todo |-> <<>>, at |-> 0, mem |-> {}, changes |-> 0,
         panel |-> None, deferred |-> FALSE, resp |-> None]

\* The errors thrown before a handler's first gateway or export call.
Rejections == {"NotAdmin", "NotConfigured", "DuplicateTicket", "NotATicket",
               "Forbidden", "CannotRemoveOwner", "NotClosed", "TypeError"}

\* ---------------------------------------------------------------- helpers
\* config?.supportRole (truthy)
HasSupportRole(cfg) == cfg.row /\ cfg.supportRole # NoRole

\* Variant: the administrator flag counts as staff.
isStaff_OrAdmin(cfg, u) ==
  (HasSupportRole(cfg) /\ cfg.supportRole \in roles[u]) \/ isAdmin(u)

\* const isStaff = config?.supportRole && member.roles.cache.has(...)
isStaff(cfg, u) == HasSupportRole(cfg) /\ cfg.supportRole \in roles[u]

\* `ticket-${user.username.toLowerCase()}`
ticketName(u) == "ticket-" \o toLowerCase(username[u])

\* guild.channels.cache.find(c => c.name === ticketName && text channel)
existingTicket(u) ==
  \E c \in ChanIds : channels[c].live /\ channels[c].name = ticketName(u)

\* SELECT userId FROM ticket_members WHERE channelId = ?  (primary-key order)
memberRows(c) ==
  SelectSeq(UserOrder, LAMBDA u : <<c, u>> \in members)

MembersOf(c) == {u \in Users : <<c, u>> \in members}
Range(q) == {q[i] : i \in 1..Len(q)}

Busy == {s \in Slots : reqs[s].op # "idle"}
\* The slot a new interaction is handled in.
FreeSlot == CHOOSE s \in Slots \ Busy : \A t \in Slots \ Busy : s <= t
CanStart == Cardinality(Busy) < width

\* The interaction as the handler sees it on arrival (lines 301-307).
NewReq(op, u, c, t) ==
  [Idle EXCEPT !.op = op, !.caller = u, !.ch = c, !.target = t,
               !.cfg = config, !.staff = isStaff(config, u)]

\* interaction.deferReply has been called: the button handler calls it
\* first of all, close, delete and transcript call it once their checks pass.
Deferred(op, passed) ==
  op = "create" \/ (op \in {"close", "delete", "transcript"} /\ passed)

\* The final response the user gets.  A handler that ends well sends its
\* success message.  After a throw the button handler calls editReply
\* (lines 277-280); the command handler calls interaction.reply when
\* interaction.replied is false (lines 291-296), which deferReply leaves
\* false while reply refuses an interaction that is already deferred, so
\* nothing is sent.
FinalResponse(op, res, deferred) ==
  IF res = "ok" THEN "success"
  ELSE IF op = "create" THEN "error"
  ELSE IF deferred THEN "none"
  ELSE "error"

\* The handler's last call, the final response, is under way.
Ending(r, res) ==
  [r EXCEPT !.pc = "reply", !.res = res,
            !.resp = FinalResponse(r.op, res, r.deferred)]

\* The handler of a new interaction ran up to its first await: it either
\* threw (chk is the error) and owes the error reply, or waits at pc.
Begin(r, chk, pc) ==
  /\ reqs' = [reqs EXCEPT ![FreeSlot] =
                LET r2 == [r EXCEPT !.deferred = Deferred(r.op, chk = "pass")] IN
                IF chk # "pass" THEN Ending(r2, chk)
                                ELSE [r2 EXCEPT !.pc = pc]]
  /\ UNCHANGED width

\* The handler of slot s has only its final response left.
Done(s, r, res) ==
  /\ reqs' = [reqs EXCEPT ![s] = Ending(r, res)]
  /\ UNCHANGED width

\* The handler of slot s moves on to its next await.
Goto(s, r) ==
  /\ reqs' = [reqs EXCEPT ![s] = r]
  /\ UNCHANGED width

\* A slash command can only be typed in a channel that exists.
InChannel(c) == channels[c].live

\* ------------------------------------------------------------------- Init
StoreInit ==
  /\ config = NoConfig
  /\ tickets = [c \in ChanIds |-> NoTicket]
  /\ members = {}
  /\ channels = [c \in ChanIds |->
                   IF c = Lobby
                     THEN [NoChan EXCEPT !.live = TRUE, !.name = "general"]
                     ELSE NoChan]
  /\ nextId = 1
  /\ reqs = [s \in Slots |-> Idle]

Init == StoreInit /\ width = 1
ConcInit == StoreInit /\ width = 2

\* ------------------------------------------------------------------ reply
\* interaction.reply / editReply: the handler ends.
Reply(s) ==
  LET r == reqs[s] IN
  /\ r.pc = "reply"
  /\ reqs' = [reqs EXCEPT ![s] = Idle]
  /\ UNCHANGED <<config, tickets, members, channels, nextId, width>>

\* ------------------------------------------------------------------ setup
SetupCheck(u) == IF ~isAdmin(u) THEN "NotAdmin" ELSE "pass"

\* case 'setup'
Setup(u, role, log) ==
  /\ CanStart
  /\ LET r == NewReq("setup", u, Lobby, None)
         chk == SetupCheck(u) IN
     /\ config' = IF chk # "pass" THEN config
                  ELSE [row |-> TRUE, supportRole |-> role,
                        closedCategory |-> ClosedCat, logChannel |-> log]
     /\ Begin(r, IF chk # "pass" THEN chk ELSE "ok", "reply")
  /\ UNCHANGED <<tickets, members, channels, nextId>>

\* ----------------------------------------------------------------- create
\* Variant: the support-role test of line 197 is missing.
CreateCheck_NoConfig(cfg, u) ==
  IF \E c \in ChanIds : channels[c].live /\ channels[c].name = ticketName(u)
    THEN "DuplicateTicket" ELSE "pass"

\* Variant: the same-name test of line 206 is missing.
CreateCheck_NoDuplicate(cfg, u) ==
  IF ~HasSupportRole(cfg) THEN "NotConfigured" ELSE "pass"

\* createTicketChannel, up to guild.channels.create
CreateCheck(cfg, u) ==
  IF ~HasSupportRole(cfg) THEN "NotConfigured"
  ELSE IF existingTicket(u) THEN "DuplicateTicket"
  ELSE "pass"

Creating == {s \in Slots : reqs[s].op = "create" /\ reqs[s].pc = "create"}

\* button handler: deferReply, then createTicketChannel up to its await
CreateStart(u, panel) ==
  /\ CanStart
  /\ LET r == [NewReq("create", u, Lobby, None) EXCEPT !.panel = panel]
         chk == CreateCheck(config, u) IN
     /\ chk = "pass" => nextId + Cardinality(Creating) <= MaxChannels
     /\ Begin(r, chk, "create")
  /\ UNCHANGED <<config, tickets, members, channels, nextId>>

\* Variant: the two INSERTs run before guild.channels.create is awaited, so
\* a failed creation leaves them behind.
CreateChannel_RowsFirst(s, ok) ==
  LET r == reqs[s] IN
  /\ r.op = "create" /\ r.pc = "create"
  /\ tickets' = [tickets EXCEPT ![nextId] =
       [row |-> TRUE, ownerId |-> r.caller, panelName |-> r.panel,
        status |-> "open", closedAt |-> 0]]
  /\ members' = members \cup {<<nextId, r.caller>>}
  /\ IF ok
       THEN /\ channels' = [channels EXCEPT ![nextId] =
                 [live |-> TRUE, name |-> ticketName(r.caller),
                  parent |-> None, ow |-> {r.caller},
                  roleAllow |-> r.cfg.supportRole]]
            /\ nextId' = nextId + 1
            /\ Goto(s, [r EXCEPT !.pc = "greet", !.ch = nextId])
       ELSE /\ Done(s, r, "GatewayError")
            /\ UNCHANGED <<channels, nextId>>
  /\ UNCHANGED config

\* guild.channels.create returns; the two INSERTs follow
CreateChannel(s, ok) ==
  LET r == reqs[s] IN
  /\ r.op = "create" /\ r.pc = "create"
  /\ IF ok
       THEN /\ channels' = [channels EXCEPT ![nextId] =
                 [live |-> TRUE, name |-> ticketName(r.caller),
                  parent |-> None, ow |-> {r.caller},
                  roleAllow |-> r.cfg.supportRole]]
            /\ nextId' = nextId + 1
            /\ tickets' = [tickets EXCEPT ![nextId] =
                 [row |-> TRUE, ownerId |-> r.caller, panelName |-> r.panel,
                  status |-> "open", closedAt |-> 0]]
            /\ members' = members \cup {<<nextId, r.caller>>}
            /\ Goto(s, [r EXCEPT !.pc = "greet", !.ch = nextId])
       ELSE /\ Done(s, r, "GatewayError")
            /\ UNCHANGED <<channels, nextId, tickets, members>>
  /\ UNCHANGED config

\* channel.send of the welcome embed returns; editReply follows
CreateGreet(s, ok) ==
  LET r == reqs[s] IN
  /\ r.op = "create" /\ r.pc = "greet"
  /\ ok => channels[r.ch].live
  /\ Done(s, r, IF ok THEN "ok" ELSE "GatewayError")
  /\ UNCHANGED <<config, tickets, members, channels, nextId>>

\* -------------------------------------------------------------------- add
\* case 'add': the two throws before permissionOverwrites.edit
AddCheck(t, staff, u) ==
  IF ~t.row /\ ~staff THEN "NotATicket"
  ELSE IF ~staff /\ t.ownerId # u THEN "Forbidden"
  ELSE "pass"

\* Variant: the overwrite is edited before the two throws.
AddStart_GrantFirst(u, c, target) ==
  /\ CanStart /\ InChannel(c)
  /\ channels' = [channels EXCEPT ![c].ow = @ \cup {target}]
  /\ LET r == NewReq("add", u, c, target) IN
     Begin(r, AddCheck(tickets[c], r.staff, u), "grant")
  /\ UNCHANGED <<config, tickets, members, nextId>>

AddStart(u, c, target) ==
  /\ CanStart /\ InChannel(c)
  /\ LET r == NewReq("add", u, c, target) IN
     Begin(r, AddCheck(tickets[c], r.staff, u), "grant")
  /\ UNCHANGED <<config, tickets, members, channels, nextId>>

\* Variant: a plain INSERT, which the primary key rejects for a stored row.
InsertOrIgnoreMember_Plain(c, u) ==
  IF <<c, u>> \in members
    THEN [rows |-> members, res |-> "SqliteConstraint", changes |-> 0]
    ELSE [rows |-> members \cup {<<c, u>>}, res |-> "ok", changes |-> 1]

\* INSERT OR IGNORE INTO ticket_members: the rows afterwards, the outcome
\* ("ok" or the error thrown) and the number of rows the statement changed
InsertOrIgnoreMember(c, u) ==
  [rows |-> members \cup {<<c, u>>}, res |-> "ok",
   changes |-> IF <<c, u>> \in members THEN 0 ELSE 1]

\* permissionOverwrites.edit returns; INSERT OR IGNORE and reply follow
AddFinish(s, ok) ==
  LET r == reqs[s]
      ins == InsertOrIgnoreMember(r.ch, r.target) IN
  /\ r.op = "add" /\ r.pc = "grant"
  /\ ok => channels[r.ch].live
  /\ IF ok
       THEN /\ channels' = [channels EXCEPT ![r.ch].ow = @ \cup {r.target}]
            /\ members' = ins.rows
            /\ Done(s, [r EXCEPT !.changes = ins.changes], ins.res)
       ELSE /\ Done(s, r, "GatewayError")
            /\ UNCHANGED <<channels, members>>
  /\ UNCHANGED <<config, tickets, nextId>>

\* ----------------------------------------------------------------- remove
\* Variant: the owner test of line 400 is missing.
RemoveCheck_NoOwner(t, staff, u, target) ==
  IF ~t.row /\ ~staff THEN "NotATicket"
  ELSE IF ~staff /\ t.ownerId # u THEN "Forbidden"
  ELSE IF ~t.row THEN "TypeError"
  ELSE "pass"

\* case 'remove': the throws before permissionOverwrites.delete; reading
\* ticketData.ownerId of a missing row is a TypeError
RemoveCheck(t, staff, u, target) ==
  IF ~t.row /\ ~staff THEN "NotATicket"
  ELSE IF ~staff /\ t.ownerId # u THEN "Forbidden"
  ELSE IF ~t.row THEN "TypeError"
  ELSE IF target = t.ownerId THEN "CannotRemoveOwner"
  ELSE "pass"

RemoveStart(u, c, target) ==
  /\ CanStart /\ InChannel(c)
  /\ LET r == NewReq("remove", u, c, target) IN
     Begin(r, RemoveCheck(tickets[c], r.staff, u, target), "revoke")
  /\ UNCHANGED <<config, tickets, members, channels, nextId>>

\* permissionOverwrites.delete returns; DELETE FROM ticket_members follows
RemoveFinish(s, ok) ==
  LET r == reqs[s] IN
  /\ r.op = "remove" /\ r.pc = "revoke"
  /\ ok => channels[r.ch].live
  /\ IF ok
       THEN /\ channels' = [channels EXCEPT ![r.ch].ow = @ \ {r.target}]
            /\ members' = members \ {<<r.ch, r.target>>}
            /\ Done(s, r, "ok")
       ELSE /\ Done(s, r, "GatewayError")
            /\ UNCHANGED <<channels, members>>
  /\ UNCHANGED <<config, tickets, nextId>>

\* generateTranscript(channel) resolves only for a channel that exists.
CanExport(c) == channels[c].live

\* ------------------------------------------------------------------ close
\* case 'close': the two throws before deferReply
CloseCheck(t, staff, u) ==
  IF ~t.row THEN "NotATicket"
  ELSE IF ~staff /\ t.ownerId # u THEN "Forbidden"
  ELSE "pass"

CloseStart(u, c) ==
  /\ CanStart /\ InChannel(c)
  /\ LET r == NewReq("close", u, c, None) IN
     Begin([r EXCEPT !.owner = tickets[c].ownerId],
           CloseCheck(tickets[c], r.staff, u), "export")
  /\ UNCHANGED <<config, tickets, members, channels, nextId>>

\* Variant: the loop spares only a staff closer, not the owner.
StripList_Owner(r, rows) ==
  SelectSeq(rows, LAMBDA m : ~(r.staff /\ m = r.caller))

\* The members the close loop strips: all but the owner and a staff closer.
StripList(r, rows) ==
  SelectSeq(rows, LAMBDA m : m # r.owner /\ ~(r.staff /\ m = r.caller))

\* Where close waits after its loop over the members.
AfterStrips(r) ==
  IF r.cfg.row /\ r.cfg.logChannel # None THEN [r EXCEPT !.pc = "log"]
  ELSE Ending(r, "ok")

\* Lines 435-440 up to the first await of the loop.
EnterStrips(r) ==
  LET rows == memberRows(r.ch)
      q == StripList(r, rows)
      r2 == [r EXCEPT !.mem = Range(rows), !.todo = q] IN
  IF q = <<>> THEN AfterStrips(r2) ELSE [r2 EXCEPT !.pc = "strip"]

\* Variant: the UPDATE sets the status only.
MarkClosed_NoTime(c, t) ==
  IF tickets[c].row THEN [tickets EXCEPT ![c].status = "closed"] ELSE tickets

\* UPDATE tickets SET status = 'closed', closedAt = <now> WHERE channelId = ?
MarkClosed(c, t) ==
  IF tickets[c].row
    THEN [tickets EXCEPT ![c].status = "closed", ![c].closedAt = t]
    ELSE tickets

\* generateTranscript returns; the UPDATE follows, then setParent is awaited
CloseExport(s, ok, t) ==
  LET r == reqs[s] IN
  /\ r.op = "close" /\ r.pc = "export"
  /\ ok => CanExport(r.ch)
  /\ IF ok
       THEN /\ tickets' = MarkClosed(r.ch, t)
            /\ LET r2 == [r EXCEPT !.at = t] IN
               IF r.cfg.row /\ r.cfg.closedCategory # None
                 THEN Goto(s, [r2 EXCEPT !.pc = "parent"])
                 ELSE Goto(s, EnterStrips(r2))
       ELSE /\ t = 1
            /\ Done(s, r, "ExportError")
            /\ UNCHANGED tickets
  /\ UNCHANGED <<config, members, channels, nextId>>

\* channel.setParent returns; the member rows are read and the loop starts
CloseParent(s, ok) ==
  LET r == reqs[s] IN
  /\ r.op = "close" /\ r.pc = "parent"
  /\ ok => channels[r.ch].live
  /\ IF ok
       THEN /\ channels' = [channels EXCEPT ![r.ch].parent = r.cfg.closedCategory]
            /\ Goto(s, EnterStrips(r))
       ELSE /\ Done(s, r, "GatewayError")
            /\ UNCHANGED channels
  /\ UNCHANGED <<config, tickets, members, nextId>>

\* one permissionOverwrites.delete of the loop returns
CloseStrip(s, ok) ==
  LET r == reqs[s] IN
  /\ r.op = "close" /\ r.pc = "strip"
  /\ ok => channels[r.ch].live
  /\ IF ok
       THEN /\ channels' = [channels EXCEPT ![r.ch].ow = @ \ {Head(r.todo)}]
            /\ LET r2 == [r EXCEPT !.todo = Tail(r.todo)] IN
               Goto(s, IF r2.todo = <<>> THEN AfterStrips(r2) ELSE r2)
       ELSE /\ Done(s, r, "GatewayError")
            /\ UNCHANGED channels
  /\ UNCHANGED <<config, tickets, members, nextId>>

\* logChannel.send returns; editReply follows
CloseLog(s, ok) ==
  LET r == reqs[s] IN
  /\ r.op = "close" /\ r.pc = "log"
  /\ Done(s, r, IF ok THEN "ok" ELSE "GatewayError")
  /\ UNCHANGED <<config, tickets, members, channels, nextId>>

\* ------------------------------------------------------------------- open
\* Variant: the status test of line 463 is missing.
OpenCheck_AnyStatus(t, staff) ==
  IF ~t.row THEN "NotClosed"
  ELSE IF ~staff THEN "Forbidden"
  ELSE "pass"

\* case 'open': the two throws
OpenCheck(t, staff) ==
  IF ~(t.row /\ t.status = "closed") THEN "NotClosed"
  ELSE IF ~staff THEN "Forbidden"
  ELSE "pass"

\* Variant: reopening also resets closedAt.
MarkOpen_Clear(c) ==
  IF tickets[c].row
    THEN [tickets EXCEPT ![c].status = "open", ![c].closedAt = 0]
    ELSE tickets

\* UPDATE tickets SET status = 'open' WHERE channelId = ?
MarkOpen(c) ==
  IF tickets[c].row THEN [tickets EXCEPT ![c].status = "open"] ELSE tickets

OpenStart(u, c) ==
  /\ CanStart /\ InChannel(c)
  /\ LET r == NewReq("open", u, c, None)
         chk == OpenCheck(tickets[c], r.staff)
         rows == memberRows(c)
         r2 == [r EXCEPT !.todo = rows, !.mem = Range(rows),
                         !.at = tickets[c].closedAt] IN
     IF chk = "pass" /\ rows = <<>>
       THEN /\ tickets' = MarkOpen(c)
            /\ Begin(r2, "ok", "reply")
       ELSE /\ Begin(IF chk = "pass" THEN r2 ELSE r, chk, "grant")
            /\ UNCHANGED tickets
  /\ UNCHANGED <<config, members, channels, nextId>>

\* one permissionOverwrites.edit of the loop returns; after the last one
\* the UPDATE and the reply follow
OpenGrant(s, ok) ==
  LET r == reqs[s] IN
  /\ r.op = "open" /\ r.pc = "grant"
  /\ ok => channels[r.ch].live
  /\ IF ok
       THEN /\ channels' = [channels EXCEPT ![r.ch].ow = @ \cup {Head(r.todo)}]
            /\ LET r2 == [r EXCEPT !.todo = Tail(r.todo)] IN
               IF r2.todo = <<>>
                 THEN /\ tickets' = MarkOpen(r.ch)
                      /\ Done(s, r2, "ok")
                 ELSE /\ Goto(s, r2)
                      /\ UNCHANGED tickets
       ELSE /\ Done(s, r, "GatewayError")
            /\ UNCHANGED <<channels, tickets>>
  /\ UNCHANGED <<config, members, nextId>>

\* ----------------------------------------------------------------- delete
\* case 'delete': the two throws before deferReply
DeleteCheck(t, staff) ==
  IF ~t.row THEN "NotATicket"
  ELSE IF ~staff THEN "Forbidden"
  ELSE "pass"

DeleteStart(u, c) ==
  /\ CanStart /\ InChannel(c)
  /\ LET r == NewReq("delete", u, c, None) IN
     Begin(r, DeleteCheck(tickets[c], r.staff), "export")
  /\ UNCHANGED <<config, tickets, members, channels, nextId>>

\* Variant: the member rows are left behind.
DeleteMemberRows_Kept(c) == members

\* DELETE FROM ticket_members WHERE channelId = ?
DeleteMemberRows(c) == {m \in members : m[1] # c}

\* Lines 507-509: the two DELETEs; channel.delete is awaited next.
DeleteRows(s, r) ==
  /\ tickets' = [tickets EXCEPT ![r.ch] = NoTicket]
  /\ members' = DeleteMemberRows(r.ch)
  /\ Goto(s, [r EXCEPT !.pc = "chdelete"])

\* generateTranscript returns
DeleteExport(s, ok) ==
  LET r == reqs[s] IN
  /\ r.op = "delete" /\ r.pc = "export"
  /\ ok => CanExport(r.ch)
  /\ IF ~ok
       THEN /\ Done(s, r, "ExportError")
            /\ UNCHANGED <<tickets, members>>
       ELSE IF r.cfg.row /\ r.cfg.logChannel # None
         THEN /\ Goto(s, [r EXCEPT !.pc = "log"])
              /\ UNCHANGED <<tickets, members>>
         ELSE DeleteRows(s, r)
  /\ UNCHANGED <<config, channels, nextId>>

\* logChannel.send returns
DeleteLog(s, ok) ==
  LET r == reqs[s] IN
  /\ r.op = "delete" /\ r.pc = "log"
  /\ IF ok
       THEN DeleteRows(s, r)
       ELSE /\ Done(s, r, "GatewayError")
            /\ UNCHANGED <<tickets, members>>
  /\ UNCHANGED <<config, channels, nextId>>

\* channel.delete returns; editReply follows
DeleteChannel(s, ok) ==
  LET r == reqs[s] IN
  /\ r.op = "delete" /\ r.pc = "chdelete"
  /\ ok => channels[r.ch].live
  /\ IF ok
       THEN /\ channels' = [channels EXCEPT ![r.ch] = NoChan]
            /\ Done(s, r, "ok")
       ELSE /\ Done(s, r, "GatewayError")
            /\ UNCHANGED channels
  /\ UNCHANGED <<config, tickets, members, nextId>>

\* ------------------------------------------------------------- transcript
\* case 'transcript': the two throws before deferReply
TranscriptCheck(t, staff, u) ==
  IF ~t.row THEN "NotATicket"
  ELSE IF ~staff /\ t.ownerId # u THEN "Forbidden"
  ELSE "pass"

TranscriptStart(u, c) ==
  /\ CanStart /\ InChannel(c)
  /\ LET r == NewReq("transcript", u, c, None) IN
     Begin(r, TranscriptCheck(tickets[c], r.staff, u), "export")
  /\ UNCHANGED <<config, tickets, members, channels, nextId>>

\* generateTranscript returns; editReply with the file follows
TranscriptFinish(s, ok) ==
  LET r == reqs[s] IN
  /\ r.op = "transcript" /\ r.pc = "export"
  /\ ok => CanExport(r.ch)
  /\ Done(s, r, IF ok THEN "ok" ELSE "ExportError")
  /\ UNCHANGED <<config, tickets, members, channels, nextId>>

Next ==
  \/ \E s \in Slots : Reply(s)
  \/ \E u \in Users, role \in Roles, log \in {None, LogChan} : Setup(u, role, log)
  \/ \E u \in Creators, p \in PanelNames : CreateStart(u, p)
  \/ \E s \in Slots, ok \in BOOLEAN : CreateChannel(s, ok)
  \/ \E s \in Slots, ok \in BOOLEAN : CreateGreet(s, ok)
  \/ \E u \in Users, c \in ChanIds, t \in Users : AddStart(u, c, t)
  \/ \E s \in Slots, ok \in BOOLEAN : AddFinish(s, ok)
  \/ \E u \in Users, c \in ChanIds, t \in Users : RemoveStart(u, c, t)
  \/ \E s \in Slots, ok \in BOOLEAN : RemoveFinish(s, ok)
  \/ \E u \in Users, c \in ChanIds : CloseStart(u, c)
  \/ \E s \in Slots, ok \in BOOLEAN, t \in 1..MaxTime : CloseExport(s, ok, t)
  \/ \E s \in Slots, ok \in BOOLEAN : CloseParent(s, ok)
  \/ \E s \in Slots, ok \in BOOLEAN : CloseStrip(s, ok)
  \/ \E s \in Slots, ok \in BOOLEAN : CloseLog(s, ok)
  \/ \E u \in Users, c \in ChanIds : OpenStart(u, c)
  \/ \E s \in Slots, ok \in BOOLEAN : OpenGrant(s, ok)
  \/ \E u \in Users, c \in ChanIds : DeleteStart(u, c)
  \/ \E s \in Slots, ok \in BOOLEAN : DeleteExport(s, ok)
  \/ \E s \in Slots, ok \in BOOLEAN : DeleteLog(s, ok)
  \/ \E s \in Slots, ok \in BOOLEAN : DeleteChannel(s, ok)
  \/ \E u \in Users, c \in ChanIds : TranscriptStart(u, c)
  \/ \E s \in Slots, ok \in BOOLEAN : TranscriptFinish(s, ok)

Spec == Init /\ [][Next]_vars
ConcSpec == ConcInit /\ [][Next]_vars

\* ------------------------------------------------- overlapping interactions
\* The guild after setup: a config row, no ticket yet.
Configured(log) ==
  /\ config = [row |-> TRUE, supportRole |-> "support",
               closedCategory |-> ClosedCat, logChannel |-> log]
  /\ nextId = 1
  /\ tickets = [c \in ChanIds |-> NoTicket]
  /\ members = {}
  /\ channels = [c \in ChanIds |->
                   IF c = Lobby
                     THEN [NoChan EXCEPT !.live = TRUE, !.name = "general"]
                     ELSE NoChan]

\* The guild after setup, one create by u1 and adds of the users of M:
\* an open ticket in channel 1 whose members all hold access.
OneOpenTicket(log, M) ==
  /\ config = [row |-> TRUE, supportRole |-> "support",
               closedCategory |-> ClosedCat, logChannel |-> log]
  /\ nextId = 2
  /\ tickets = [c \in ChanIds |->
                  IF c = 1 THEN [row |-> TRUE, ownerId |-> "u1",
                                 panelName |-> "help", status |-> "open",
                                 closedAt |-> 0]
                  ELSE NoTicket]
  /\ members = {<<1, m>> : m \in M}
  /\ channels = [c \in ChanIds |->
                   IF c = Lobby
                     THEN [NoChan EXCEPT !.live = TRUE, !.name = "general"]
                   ELSE IF c = 1
                     THEN [live |-> TRUE, name |-> ticketName("u1"),
                           parent |-> None, ow |-> M, roleAllow |-> "support"]
                   ELSE NoChan]

\* Two interactions may overlap from here on.
Overlapping == reqs = [s \in Slots |-> Idle] /\ width = 2

\* The users who click the panel button in the create race.
RaceCreators == {"u1", "u2"}

CreateRaceInit ==
  /\ \E log \in {None, LogChan} : Configured(log)
  /\ Overlapping

\* Button clicks only, overlapping at their awaits.
CreateRaceNext ==
  \/ \E s \in Slots : Reply(s)
  \/ \E u \in RaceCreators, p \in PanelNames : CreateStart(u, p)
  \/ \E s \in Slots, ok \in BOOLEAN : CreateChannel(s, ok)
  \/ \E s \in Slots, ok \in BOOLEAN : CreateGreet(s, ok)

CreateRaceSpec == CreateRaceInit /\ [][CreateRaceNext]_vars

TicketInit ==
  /\ \E log \in {None, LogChan}, M \in SUBSET Users :
       "u1" \in M /\ OneOpenTicket(log, M)
  /\ Overlapping

\* /ticket close only, overlapping at its awaits.
CloseRaceNext ==
  \/ \E s \in Slots : Reply(s)
  \/ \E u \in Users, c \in ChanIds : CloseStart(u, c)
  \/ \E s \in Slots, ok \in BOOLEAN, t \in 1..MaxTime : CloseExport(s, ok, t)
  \/ \E s \in Slots, ok \in BOOLEAN : CloseParent(s, ok)
  \/ \E s \in Slots, ok \in BOOLEAN : CloseStrip(s, ok)
  \/ \E s \in Slots, ok \in BOOLEAN : CloseLog(s, ok)

CloseRaceSpec == TicketInit /\ [][CloseRaceNext]_vars

\* /ticket close and /ticket open overlapping at their awaits, every export
\* and gateway call succeeding.
ReopenRaceNext ==
  \/ \E s \in Slots : Reply(s)
  \/ \E u \in Users, c \in ChanIds : CloseStart(u, c)
  \/ \E s \in Slots, t \in 1..MaxTime : CloseExport(s, TRUE, t)
  \/ \E s \in Slots : CloseParent(s, TRUE)
  \/ \E s \in Slots : CloseStrip(s, TRUE)
  \/ \E s \in Slots : CloseLog(s, TRUE)
  \/ \E u \in Users, c \in ChanIds : OpenStart(u, c)
  \/ \E s \in Slots : OpenGrant(s, TRUE)

ReopenRaceSpec == TicketInit /\ [][ReopenRaceNext]_vars

\* ================================================================ properties
\* Slot s takes a new interaction in this step.
Arrives(s) == reqs[s].op = "idle" /\ reqs'[s].op # "idle"
\* That interaction was refused by its handler's checks.
Refused(s, res) == reqs'[s].pc = "reply" /\ reqs'[s].res = res
\* The rows and the gateway state the claims speak of.
SameTicketState == UNCHANGED <<tickets, members, channels>>
\* Slot s holds a handler that has only its final response left.
Replying(s, op, res) ==
  reqs[s].op = op /\ reqs[s].pc = "reply" /\ reqs[s].res = res
\* The user holds the configured support role (read off the stored rows).
HoldsSupportRole(u) == config.row /\ config.supportRole \in roles[u]
\* The per-user overwrite add and reopen grant and remove and close revoke.
HasAccess(c, u) == channels[c].live /\ u \in channels[c].ow
OwnedBy(u) == {c \in ChanIds : tickets[c].row /\ tickets[c].ownerId = u}

\* C1: while the guild has no config row with a support role, every create
\* is refused with NotConfigured, and neither the step that refuses it nor
\* its error reply changes a channel, a Ticket row or a TicketMember row.
C1_NotConfigured ==
  [][\A s \in Slots :
       /\ (Arrives(s) /\ reqs'[s].op = "create" /\ ~HasSupportRole(config))
            => (Refused(s, "NotConfigured") /\ SameTicketState)
       /\ Replying(s, "create", "NotConfigured") => SameTicketState]_vars

C1_Witness ==
  \E s \in Slots : Replying(s, "create", "NotConfigured") /\ ~config.row

\* C2: a create by a user who already owns a Ticket row (an earlier create
\* of theirs inserted it and no delete has removed it) is refused with
\* DuplicateTicket, and the user owns exactly one Ticket row afterwards.
C2_SecondCreate ==
  [][\A s \in Slots :
       (Arrives(s) /\ reqs'[s].op = "create"
          /\ OwnedBy(reqs'[s].caller) # {})
         => /\ Refused(s, "DuplicateTicket")
            /\ Cardinality({c \in ChanIds : tickets'[c].row
                 /\ tickets'[c].ownerId = reqs'[s].caller}) = 1]_vars

C2_Witness ==
  \E s \in Slots : /\ Replying(s, "create", "DuplicateTicket")
                   /\ Cardinality(OwnedBy(reqs[s].caller)) = 1

\* C3: when a delete by a staff caller has had every export and gateway call
\* succeed, the Ticket row of its channel is gone, no TicketMember row of the
\* channel remains and the channel no longer exists; and a channel id that
\* was handed out and deleted never has a Ticket or TicketMember row again.
C3_Deleted ==
  /\ \A s \in Slots : Replying(s, "delete", "ok") =>
       /\ ~tickets[reqs[s].ch].row
       /\ MembersOf(reqs[s].ch) = {}
       /\ ~channels[reqs[s].ch].live
  /\ \A c \in ChanIds : (c # Lobby /\ c < nextId /\ ~channels[c].live) =>
       (~tickets[c].row /\ MembersOf(c) = {})

C3_Witness ==
  \E s \in Slots : /\ Replying(s, "delete", "ok") /\ reqs[s].staff
                   /\ ~channels[reqs[s].ch].live
                   /\ reqs[s].ch # Lobby

\* C4: a reopen that succeeds on a closed ticket (nothing having run since
\* the close, so the member rows it reads are the rows M stored at the
\* close and the closedAt it reads is the time that close wrote) ends with
\* status open, every user of M holding access, and closedAt unchanged.
C4_CloseReopen ==
  \A s \in Slots : Replying(s, "open", "ok") =>
    LET c == reqs[s].ch IN
    /\ tickets[c].row /\ tickets[c].status = "open"
    /\ \A m \in reqs[s].mem : HasAccess(c, m)
    /\ reqs[s].mem = MembersOf(c)
    /\ tickets[c].closedAt = reqs[s].at
    /\ reqs[s].at \in 1..MaxTime

C4_Witness ==
  \E s \in Slots : /\ Replying(s, "open", "ok")
                   /\ Cardinality(reqs[s].mem) >= 2
                   /\ tickets[reqs[s].ch].closedAt >= 1

\* C5 as claimed: a remove whose target is the ticket's owner is refused
\* with CannotRemoveOwner whoever the caller is.
C5_AlwaysCannotRemoveOwner ==
  [][\A s \in Slots :
       (Arrives(s) /\ reqs'[s].op = "remove" /\ tickets[reqs'[s].ch].row
          /\ reqs'[s].target = tickets[reqs'[s].ch].ownerId)
         => Refused(s, "CannotRemoveOwner")]_vars

\* C5 amended: a remove whose target is the ticket's owner is always
\* refused - with CannotRemoveOwner when the caller is staff or the owner,
\* with Forbidden when the caller is neither - and no step of a remove
\* deletes the owner's TicketMember row or revokes the owner's access.
C5_OwnerNeverRemoved ==
  [][\A s \in Slots :
       /\ (Arrives(s) /\ reqs'[s].op = "remove" /\ tickets[reqs'[s].ch].row
             /\ reqs'[s].target = tickets[reqs'[s].ch].ownerId)
            => /\ Refused(s, IF HoldsSupportRole(reqs'[s].caller)
                                  \/ reqs'[s].caller = reqs'[s].target
                               THEN "CannotRemoveOwner" ELSE "Forbidden")
               /\ SameTicketState
       /\ (reqs[s].op = "remove" /\ tickets[reqs[s].ch].row) =>
            LET c == reqs[s].ch
                o == tickets[c].ownerId IN
            /\ <<c, o>> \in members => <<c, o>> \in members'
            /\ o \in channels[c].ow => o \in channels'[c].ow]_vars

C5_Witness ==
  \E s \in Slots : /\ Replying(s, "remove", "CannotRemoveOwner")
                   /\ reqs[s].target = tickets[reqs[s].ch].ownerId
                   /\ HasAccess(reqs[s].ch, reqs[s].target)
                   /\ <<reqs[s].ch, reqs[s].target>> \in members

\* C6: an interaction refused by an authorization or precondition check is
\* refused in the step it arrives in, and neither that step nor its error
\* reply changes a Ticket row, a TicketMember row or a channel permission.
C6_RefusedNoEffect ==
  [][\A s \in Slots :
       /\ (reqs'[s] # reqs[s] /\ reqs'[s].res \in Rejections)
            => (Arrives(s) /\ SameTicketState)
       /\ reqs[s].res \in Rejections => SameTicketState]_vars

C6_Witness ==
  \E s \in Slots :
    /\ Replying(s, "remove", "Forbidden")
    /\ ~HoldsSupportRole(reqs[s].caller)
    /\ tickets[reqs[s].ch].row
    /\ reqs[s].caller # tickets[reqs[s].ch].ownerId
    /\ reqs[s].target # tickets[reqs[s].ch].ownerId
    /\ <<reqs[s].ch, reqs[s].target>> \in members

\* C7: a reopen or delete by a caller who does not hold the configured
\* support role - the ticket's owner and an administrator included - is
\* refused on arrival and changes no row, status or channel.
C7_StaffOnly ==
  [][\A s \in Slots :
       /\ (Arrives(s) /\ reqs'[s].op \in {"open", "delete"}
             /\ ~HoldsSupportRole(reqs'[s].caller))
            => /\ reqs'[s].pc = "reply"
               /\ reqs'[s].res \in {"Forbidden", "NotClosed", "NotATicket"}
               /\ (tickets[reqs'[s].ch].row
                     /\ (reqs'[s].op = "open"
                           => tickets[reqs'[s].ch].status = "closed"))
                    => reqs'[s].res = "Forbidden"
               /\ SameTicketState
       /\ (reqs[s].op \in {"open", "delete"}
             /\ ~HoldsSupportRole(reqs[s].caller)) => SameTicketState]_vars

C7_Witness ==
  \E s \in Slots : /\ Replying(s, "open", "Forbidden")
                   /\ isAdmin(reqs[s].caller)
                   /\ ~HoldsSupportRole(reqs[s].caller)
                   /\ tickets[reqs[s].ch].status = "closed"

\* C8 as claimed: with a config row that has a support role, a create by a
\* caller who owns no ticket with status open is not refused as a duplicate.
C8_DuplicateOnlyIfOpen ==
  [][\A s \in Slots :
       (Arrives(s) /\ reqs'[s].op = "create" /\ HasSupportRole(config)
          /\ \A c \in OwnedBy(reqs'[s].caller) : tickets[c].status # "open")
         => reqs'[s].pc = "create"]_vars

C10_AddIdempotent ==
  [][\A s \in Slots :
       (reqs[s].op = "add" /\ reqs[s].pc = "grant" /\ reqs'[s].pc = "reply"
          /\ <<reqs[s].ch, reqs[s].target>> \in members
          /\ HasAccess(reqs[s].ch, reqs[s].target))
         => /\ reqs'[s].res \in {"ok", "GatewayError"}
            /\ SameTicketState]_vars

C10_Witness ==
  \E s \in Slots :
    /\ Replying(s, "add", "ok") /\ reqs[s].changes = 0
    /\ tickets[reqs[s].ch].row
    /\ reqs[s].target # tickets[reqs[s].ch].ownerId
    /\ Cardinality({m \in members : m = <<reqs[s].ch, reqs[s].target>>}) = 1
    /\ HasAccess(reqs[s].ch, reqs[s].target)
\* C11: when a permissionOverwrites.delete of the close loop has failed, the
\* loop has still gone on to every member after the failed one (none is left
\* untried when the close ends), and the Ticket row's status is closed.
C11_StripContinues ==
  \A s \in Slots :
    (Replying(s, "close", "GatewayError") /\ reqs[s].todo # <<>>) =>
      /\ Len(reqs[s].todo) = 1
      /\ tickets[reqs[s].ch].row => tickets[reqs[s].ch].status = "closed"

\* C12: when a delete that passed its checks has ended, with success or with
\* an export or gateway error, the Ticket row of its channel and the channel
\* are both gone or both still there.
C12_RowAndChannelTogether ==
  \A s \in Slots :
    (reqs[s].op = "delete" /\ reqs[s].pc = "reply"
       /\ reqs[s].res \in {"ok", "ExportError", "GatewayError"}) =>
      (tickets[reqs[s].ch].row <=> channels[reqs[s].ch].live)

\* C13: when generateTranscript has failed during a delete, the delete has
\* gone on all the same: the Ticket row, the channel's TicketMember rows and
\* the channel are removed.
C13_DeleteDespiteExport ==
  \A s \in Slots : Replying(s, "delete", "ExportError") =>
    /\ ~tickets[reqs[s].ch].row
    /\ MembersOf(reqs[s].ch) = {}
    /\ ~channels[reqs[s].ch].live

\* C14: a create whose guild.channels.create fails writes no Ticket row and
\* no TicketMember row; a Ticket row appears only in a step that leaves its
\* channel existing, and every TicketMember row is inserted for a channel
\* that exists at that moment.
C14_RowAfterChannel ==
  [][/\ \A s \in Slots :
          (reqs[s].op = "create" /\ reqs[s].pc = "create"
             /\ reqs'[s].pc = "reply")
            => (reqs'[s].res = "GatewayError" /\ SameTicketState)
     /\ \A c \in ChanIds :
          (~tickets[c].row /\ tickets'[c].row) => channels'[c].live
     /\ \A m \in members' \ members : channels'[m[1]].live]_vars

C14_Witness ==
  \E s \in Slots : /\ Replying(s, "create", "GatewayError")
                   /\ reqs[s].ch = Lobby
                   /\ OwnedBy(reqs[s].caller) = {}
                   /\ MembersOf(nextId) = {}
                   /\ ~existingTicket(reqs[s].caller)

\* C15: a reopen in a channel whose Ticket row is open, or that has no
\* Ticket row, is refused with NotClosed whoever the caller is, and neither
\* the step that refuses it nor its error reply changes a Ticket row, a
\* TicketMember row or a channel's permissions.
C15_ReopenNeedsClosed ==
  [][\A s \in Slots :
       /\ (Arrives(s) /\ reqs'[s].op = "open"
            /\ ~(tickets[reqs'[s].ch].row
                 /\ tickets[reqs'[s].ch].status = "closed"))
            => (Refused(s, "NotClosed") /\ SameTicketState)
       /\ Replying(s, "open", "NotClosed") => SameTicketState]_vars

C15_Witness ==
  \E s \in Slots : /\ Replying(s, "open", "NotClosed")
                   /\ reqs[s].staff
                   /\ tickets[reqs[s].ch].row
                   /\ tickets[reqs[s].ch].status = "open"

C17_FinalResponse ==
  \A s \in Slots :
    (reqs[s].op \in {"close", "delete", "transcript"}
       /\ reqs[s].deferred /\ reqs[s].pc = "reply")
      => reqs[s].resp \in {"success", "error"}

\* C18: whatever creates overlap, a user never has more than one existing
\* channel named ticket-<handle> and never owns more than one Ticket row.
C18_OneTicketPerUser ==
  \A u \in Users :
    /\ Cardinality({c \in ChanIds :
          channels[c].live /\ channels[c].name = ticketName(u)}) <= 1
    /\ Cardinality(OwnedBy(u)) <= 1

\* C19: every TicketMember row's channelId is the key of a stored Ticket row.
C19_MemberHasTicket ==
  \A m \in members : tickets[m[1]].row

\* C20: whenever a ticket is open and no interaction is in flight in its
\* channel, every user with a TicketMember row of it holds access, however
\* closes and reopens whose calls all succeed have overlapped.
C20_OpenMembersHaveAccess ==
  \A c \in ChanIds :
    (tickets[c].row /\ tickets[c].status = "open"
       /\ \A s \in Slots : reqs[s].op # "idle" => reqs[s].ch # c)
      => \A m \in MembersOf(c) : HasAccess(c, m)

====
